---- MODULE Spec2Model ----
(***************************************************************************)
(* Model of the two entry points of SanctumWriterPro's document conversion *)
(* glue: scripts/convert_document.py (one-shot CLI) and                    *)
(* scripts/docling_server.py (FastAPI server).                             *)
(*                                                                         *)
(* Python strings are sequences of tokens (a token is one character, or an *)
(* atomic chunk of a fixed message); concatenation and f-strings are \o.   *)
(* An Optional value is <<>> (None) or <<v>>.                              *)
(* The external converter library is the environment: every outcome it can *)
(* produce (an exception at any call, any Markdown text, any attribute     *)
(* value) is drawn with \E from a bounded set.                             *)
(***************************************************************************)
EXTENDS Integers, Sequences, FiniteSets, TLC

\* ---------------------------------------------------------------- bounds
\* Number of /convert requests that can be suspended at their await at once.
NumSlots == 2
\* Longest Markdown text the external converter returns to the CLI, which
\* is given every text up to this length.
MaxCliMdLen == 3
\* Cap on the number of DocumentConverter instances ever created.
MaxInstances == 2

\* ------------------------------------------------------------ text helpers
None == <<>>
Some(v) == <<v>>

\* Python truthiness of an Optional[str]: None and "" are falsy.
Truthy(opt) == opt # None /\ opt[1] # <<>>

\* sub in text (Python's `in` on str).
Contains(text, sub) ==
    \E i \in 0..(Len(text) - Len(sub)) : SubSeq(text, i + 1, i + Len(sub)) = sub

IsSpace(c) == c \in {" ", "\n", "\t"}

\* str.split() with no separator: maximal runs of non-whitespace.
RECURSIVE SplitFrom(_, _, _)
SplitFrom(s, i, word) ==
    IF i > Len(s)
    THEN IF word = <<>> THEN <<>> ELSE <<word>>
    ELSE IF IsSpace(s[i])
         THEN IF word = <<>>
              THEN SplitFrom(s, i + 1, <<>>)
              ELSE <<word>> \o SplitFrom(s, i + 1, <<>>)
         ELSE SplitFrom(s, i + 1, Append(word, s[i]))

\* Mutant: str.split(" "), which keeps the empty strings between separators.
RECURSIVE SplitOnSpaceFrom(_, _, _)
SplitOnSpaceFrom(s, i, word) ==
    IF i > Len(s) THEN <<word>>
    ELSE IF s[i] = " " THEN <<word>> \o SplitOnSpaceFrom(s, i + 1, <<>>)
    ELSE SplitOnSpaceFrom(s, i + 1, Append(word, s[i]))

SplitOnSpace(s) == SplitOnSpaceFrom(s, 1, <<>>)

Split(s) == SplitFrom(s, 1, <<>>)

\* str.lower() on the characters that occur in file names here.
LowerChar(c) ==
    CASE c = "A" -> "a" [] c = "C" -> "c" [] c = "D" -> "d" [] c = "F" -> "f"
      [] c = "H" -> "h" [] c = "L" -> "l" [] c = "M" -> "m" [] c = "O" -> "o"
      [] c = "P" -> "p" [] c = "S" -> "s" [] c = "T" -> "t" [] c = "X" -> "x"
      [] OTHER -> c

Lower(s) == [i \in 1..Len(s) |-> LowerChar(s[i])]

\* Index of the last occurrence of c in s, 0 when there is none (str.rfind + 1).
RECURSIVE RFind(_, _, _)
RFind(s, c, i) == IF i = 0 THEN 0 ELSE IF s[i] = c THEN i ELSE RFind(s, c, i - 1)

\* Length of s with trailing c's removed.
RECURSIVE RStripLen(_, _, _)
RStripLen(s, c, i) == IF i > 0 /\ s[i] = c THEN RStripLen(s, c, i - 1) ELSE i

\* pathlib: final path component (trailing slashes dropped).
PathName(p) ==
    LET n == RStripLen(p, "/", Len(p))
        q == SubSeq(p, 1, n)
        k == RFind(q, "/", n)
    IN  SubSeq(q, k + 1, n)

\* pathlib.PurePath.suffix: from the last dot of the name, unless that dot is
\* the first or the last character of the name.
PathSuffix(p) ==
    LET name == PathName(p)
        i == RFind(name, ".", Len(name))
    IN  IF 1 < i /\ i < Len(name) THEN SubSeq(name, i, Len(name)) ELSE <<>>

\* pathlib.PurePath.stem: the name without its suffix.
PathStem(p) ==
    LET name == PathName(p)
        i == RFind(name, ".", Len(name))
    IN  IF 1 < i /\ i < Len(name) THEN SubSeq(name, 1, i - 1) ELSE name

\* posixpath.join(a, b).
PathJoin(a, b) ==
    IF b # <<>> /\ b[1] = "/" THEN b
    ELSE IF a = <<>> \/ a[Len(a)] = "/" THEN a \o b
    ELSE a \o <<"/">> \o b

\* posixpath.dirname(p).
Dirname(p) ==
    LET i == RFind(p, "/", Len(p))
        head == SubSeq(p, 1, i)
        n == RStripLen(head, "/", i)
    IN  IF n = 0 THEN head ELSE SubSeq(head, 1, n)

\* posixpath.basename(p).
Basename(p) == SubSeq(p, RFind(p, "/", Len(p)) + 1, Len(p))

\* ------------------------------------------------------- external converter
\* Markdown texts export_to_markdown() can return.
MdChars == {"a", " "}
Texts(maxLen) == UNION {[1..n -> MdChars] : n \in 0..maxLen}
TwoWords == <<"a", " ", "a">>
\* The texts the model lets the converter return to the server: empty,
\* whitespace only, two words.
ServerTexts == {<<>>, <<" ">>, TwoWords}

\* Python values of the attributes read with getattr(doc, ..., None).
PyNone == [py |-> "None", v |-> 0]
PyInt(n) == [py |-> "int", v |-> n]
PyMethod == [py |-> "method", v |-> 0]

\* Attribute combinations of a converted document: no title and no num_pages;
\* a title and an integer num_pages; num_pages a bound method (not a value).
PlainAttrs == [title |-> None, num_pages |-> PyNone]
TitledAttrs == [title |-> Some(<<"T">>), num_pages |-> PyInt(1)]
MethodAttrs == [title |-> None, num_pages |-> PyMethod]

\* Documents the converter can produce: every Markdown text of texts
\* without attributes, and one document of each other attribute combination.
Docs(texts) ==
    [markdown : texts, attrs : {PlainAttrs}]
    \cup [markdown : {TwoWords}, attrs : {TitledAttrs, MethodAttrs}]

\* str(e) of the exception raised at a stage.
ExcText(stage) == <<"error at ", stage>>

\* json.dumps / JSONResponse.render accept None, str, int, bool, dict; a
\* method object raises TypeError.
JsonSerializable(result) ==
    "metadata" \in DOMAIN result => result.metadata.pages.py # "method"

\* ------------------------------------------------------------- file system
\* os.makedirs(d, exist_ok=True)
MakeDirs(ds, d) == ds \cup {d}

\* Mutant: the file is opened for writing and nothing is written.
WriteFileEmpty(fs, p, content) == (p :> <<>>) @@ fs

\* open(p, 'w') followed by f.write(content) and close.
WriteFile(fs, p, content) == (p :> content) @@ fs

\* open(p, 'w') succeeded (the file is created or truncated), the write failed.
TruncateFile(fs, p) == (p :> <<>>) @@ fs

\* ---------------------------------------------------------------- CLI
\* What the environment answers during one conversion: the stage that raises
\* ("none": no stage does) and the document the converter produces.  The
\* document matters only when every stage succeeds.
AnyDoc == [markdown |-> <<>>, attrs |-> PlainAttrs]
ConvEnvs(texts) ==
    [failAt : {"ctor", "convert", "export", "makedirs", "open_out", "write_out"},
     doc : {AnyDoc}]
    \cup [failAt : {"none"}, doc : Docs(texts)]
CliEnvs ==
    [import_ok : {FALSE}, exists : BOOLEAN, conv : {[failAt |-> "none", doc |-> AnyDoc]}]
    \cup [import_ok : {TRUE}, exists : {FALSE}, conv : {[failAt |-> "none", doc |-> AnyDoc]}]
    \cup [import_ok : {TRUE}, exists : {TRUE}, conv : ConvEnvs(Texts(MaxCliMdLen))]

\* Mutant: the message does not name the path.
file_not_found_no_path(input_path) ==
    [success |-> FALSE, error |-> <<"File not found">>]

\* `return {"success": False, "error": f"File not found: {input_path}"}`
file_not_found(input_path) ==
    [success |-> FALSE, error |-> <<"File not found: ">> \o input_path]

\* Mutant: the failure result also carries a markdown field.
exception_result_with_markdown(text) ==
    [success |-> FALSE, error |-> text, markdown |-> <<>>]

\* `except Exception as e: return {"success": False, "error": str(e)}`
exception_result(text) == [success |-> FALSE, error |-> text]

\* scripts/convert_document.py: convert_document(input_path, output_path).
\* output_path is Optional; env holds what the environment answers.
\* Returns the result dict, the stage that raised inside the try ("none" if
\* none did) and the file system it leaves.
cli_convert_document(input_path, output_path, env, fs, ds) ==
    LET md == env.conv.doc.markdown
        attrs == env.conv.doc.attrs
        failAt == env.conv.failAt
        metadata == [title |-> IF Truthy(attrs.title) THEN attrs.title[1]
                                ELSE PathStem(input_path),
                     pages |-> attrs.num_pages,
                     source_file |-> Basename(input_path)]
        failed(stage, fs2, ds2) ==
            [result |-> exception_result(ExcText(stage)), raised |-> stage,
             files |-> fs2, dirs |-> ds2]
        parent == IF Dirname(output_path[1]) # <<>> THEN Dirname(output_path[1])
                  ELSE <<".">>
    IN  IF ~env.import_ok
        THEN [result |-> [success |-> FALSE,
                          error |-> <<"Docling not installed. Run: pip install docling">>],
              raised |-> "none", files |-> fs, dirs |-> ds]
        ELSE IF ~env.exists
        THEN [result |-> file_not_found(input_path), raised |-> "none",
              files |-> fs, dirs |-> ds]
        ELSE IF failAt \in {"ctor", "convert", "export"}
        THEN failed(failAt, fs, ds)
        ELSE IF ~Truthy(output_path)
        THEN [result |-> [success |-> TRUE, markdown |-> md, metadata |-> metadata,
                          saved_path |-> None, character_count |-> Len(md),
                          word_count |-> Len(Split(md))],
              raised |-> "none", files |-> fs, dirs |-> ds]
        ELSE IF failAt = "makedirs"
        THEN failed("makedirs", fs, ds)
        ELSE IF failAt = "open_out"
        THEN failed("open_out", fs, MakeDirs(ds, parent))
        ELSE IF failAt = "write_out"
        THEN failed("write_out", TruncateFile(fs, output_path[1]), MakeDirs(ds, parent))
        ELSE [result |-> [success |-> TRUE, markdown |-> md, metadata |-> metadata,
                          saved_path |-> Some(output_path[1]),
                          character_count |-> Len(md),
                          word_count |-> Len(Split(md))],
              raised |-> "none",
              files |-> WriteFile(fs, output_path[1], md),
              dirs |-> MakeDirs(ds, parent)]

\* json.dumps(result): the JSON text (kept as the value it encodes), or <<>>
\* when the encoder raises TypeError.
json_dumps(result) == IF JsonSerializable(result) THEN Some(result) ELSE None

\* What the process is started with: sys.argv.
Script == <<"convert_document.py">>
InA == <<"a", ".", "p", "d", "f">>
InSub == <<"i", "/", "b", ".", "p", "d", "f">>
OutO == <<"o", ".", "m", "d">>
OutSub == <<"d", "/", "o", ".", "m", "d">>
CliInputs == {<<>>, InA, InSub}
CliOutputs == {<<>>, OutO, OutSub}
Argvs ==
    {<<Script>>}
    \cup {<<Script, i>> : i \in CliInputs}
    \cup {<<Script, i, o>> : i \in CliInputs, o \in CliOutputs}
    \cup {<<Script, InA, OutO, <<"x">> >>}

\* --------------------------------------------------------------- server
\* Mutant: the `if converter is None` test is dropped.
get_converter_always_new(conv, n, ctor_ok) ==
    IF ctor_ok
    THEN [raised |-> FALSE, converter |-> n + 1, created |-> n + 1]
    ELSE [raised |-> TRUE, converter |-> conv, created |-> n]

\* The module-level `converter` is None (0) or the id of an instance.
\* get_converter(): n is the number of instances created so far.
get_converter(conv, n, ctor_ok) ==
    IF conv # 0
    THEN [raised |-> FALSE, converter |-> conv, created |-> n]
    ELSE IF ctor_ok
         THEN [raised |-> FALSE, converter |-> n + 1, created |-> n + 1]
         ELSE [raised |-> TRUE, converter |-> 0, created |-> n]

supported_extensions ==
    << <<".", "p", "d", "f">>, <<".", "d", "o", "c", "x">>, <<".", "d", "o", "c">>,
       <<".", "p", "p", "t", "x">>, <<".", "p", "p", "t">>,
       <<".", "x", "l", "s", "x">>, <<".", "x", "l", "s">>,
       <<".", "h", "t", "m", "l">>, <<".", "h", "t", "m">> >>

\* `ext not in supported_extensions`
Supported(ext) == \E i \in 1..Len(supported_extensions) : supported_extensions[i] = ext

\* tempfile.mkdtemp() returns the path of a directory that did not exist.
TempNames == {<<"/", "tmp", "/", ToString(i)>> : i \in 1..NumSlots}

\* Mutant: the cleanup is forgotten.
RmTreeKeeps(tdirs, d) == tdirs

\* shutil.rmtree(temp_dir, ignore_errors=True)
RmTree(tdirs, d) == tdirs \ {d}

\* HTTPException(status_code, detail) as the response the framework sends.
HTTPException(status, detail) == [status |-> status, body |-> [detail |-> detail]]

\* Text of the TypeError JSONResponse raises on a value it cannot encode.
RenderError == <<"Object of type method is not JSON serializable">>

\* The body both handlers share from `conv = get_converter()` to the return:
\* titleDefault and nameDefault are what `or` falls back to, srcMeta the
\* source_file / source_url entry of the metadata.  Returns the stage that
\* raised ("none": the JSONResponse content is in body) and the state left.
run_conversion(titleDefault, nameDefault, srcMeta, output_path, filename, env, conv, n, fs, ds) ==
    LET g == get_converter(conv, n, env.failAt # "ctor")
        md == env.doc.markdown
        attrs == env.doc.attrs
        metadata == [title |-> IF Truthy(attrs.title) THEN attrs.title[1]
                                ELSE titleDefault,
                     pages |-> attrs.num_pages] @@ srcMeta
        output_filename == IF Truthy(filename) THEN filename[1] ELSE nameDefault
        full_output_path == PathJoin(output_path[1], output_filename)
        content(saved_path) ==
            [success |-> TRUE, markdown |-> md, metadata |-> metadata,
             saved_path |-> saved_path, character_count |-> Len(md),
             word_count |-> Len(Split(md))]
        out(stage, body, used, fs2, ds2) ==
            [failedAt |-> stage, body |-> body, converter |-> g.converter,
             created |-> g.created, used |-> used, files |-> fs2, dirs |-> ds2]
        finish(saved_path, fs2, ds2) ==
            IF JsonSerializable(content(saved_path))
            THEN out("none", content(saved_path), {g.converter}, fs2, ds2)
            ELSE out("render", [detail |-> RenderError], {g.converter}, fs2, ds2)
    IN  IF g.raised THEN out("ctor", [detail |-> ExcText("ctor")], {}, fs, ds)
        ELSE IF env.failAt = "convert"
        THEN out("convert", [detail |-> ExcText("convert")], {g.converter}, fs, ds)
        ELSE IF env.failAt = "export"
        THEN out("export", [detail |-> ExcText("export")], {g.converter}, fs, ds)
        ELSE IF ~Truthy(output_path) THEN finish(None, fs, ds)
        ELSE IF env.failAt = "makedirs"
        THEN out("makedirs", [detail |-> ExcText("makedirs")], {g.converter}, fs, ds)
        ELSE IF env.failAt = "open_out"
        THEN out("open_out", [detail |-> ExcText("open_out")], {g.converter},
                 fs, MakeDirs(ds, output_path[1]))
        ELSE IF env.failAt = "write_out"
        THEN out("write_out", [detail |-> ExcText("write_out")], {g.converter},
                 TruncateFile(fs, full_output_path), MakeDirs(ds, output_path[1]))
        ELSE finish(Some(full_output_path),
                    WriteFile(fs, full_output_path, md),
                    MakeDirs(ds, output_path[1]))

\* Mutant: the exception's text is left out of the detail.
respond_generic(r) ==
    IF r.failedAt = "none"
    THEN [status |-> 200, body |-> r.body]
    ELSE HTTPException(500, <<"Conversion failed">>)

\* `except Exception as e: raise HTTPException(500, f"Conversion failed: {str(e)}")`
\* or the JSONResponse returned from the try block (status 200).
respond(r) ==
    IF r.failedAt = "none"
    THEN [status |-> 200, body |-> r.body]
    ELSE HTTPException(500, <<"Conversion failed: ">> \o r.body.detail)

\* ', '.join(xs)
RECURSIVE JoinFrom(_, _, _)
JoinFrom(sep, xs, i) ==
    IF i > Len(xs) THEN <<>>
    ELSE IF i = Len(xs) THEN xs[i]
    ELSE xs[i] \o sep \o JoinFrom(sep, xs, i + 1)

\* Requests the model sends.  File names of the multipart upload: absent,
\* empty, names that pass the extension check, names that do not.
NameA == <<"a">>
ValidNames ==
    { NameA \o <<".", "p", "d", "f">>,
      NameA \o <<".", "H", "T", "M">> }
InvalidNames ==
    { NameA \o <<".", "t", "x", "t">>,
      NameA,
      <<".", "p", "d", "f">>,
      NameA \o <<".", "p", "d", "f", ".">>,
      NameA \o <<".", "p", "d", "f", ".", "e", "x", "e">>,
      NameA \o <<".", "b", ".", "m", "d">>,
      <<"p", "d", "f">> }
FileNameInputs == {None, Some(<<>>)} \cup {Some(f) : f \in ValidNames \cup InvalidNames}
OutDir == <<"o", "u", "t">>
OutPathInputs == {None, Some(<<>>), Some(OutDir)}
OutNameInputs == {None, Some(<<"n", ".", "m", "d">>)}
Url == <<"http://host/doc">>

ServerEnvs == ConvEnvs(ServerTexts)

Slots == 1..NumSlots
IdleSlot == [pc |-> "idle", filename |-> <<>>, temp_dir |-> <<>>]
NoReq == [filename |-> None, output_path |-> None]
NoResp ==
    [kind |-> "none", status |-> 0, body |-> [detail |-> <<>>], req |-> NoReq,
     failedAt |-> "none", temp_dir |-> <<>>]
NoResult == [success |-> FALSE, error |-> <<>>]

\* ----------------------------------------------------------------- state
VARIABLES
    prog,       \* which script was started: "server" or "cli"
    converter,  \* docling_server.converter: 0 (None) or the instance's id
    created,    \* number of DocumentConverter instances the server created
    usedInst,   \* ids of the instances conv.convert() was called on
    needed,     \* a handler has called get_converter()
    slots,      \* /convert handlers suspended at `await file.read()`
    tempDirs,   \* temporary directories that exist
    files,      \* output files: path -> content
    dirs,       \* directories created by os.makedirs
    resp,       \* the response the last step sent (NoResp if it sent none)
    argv,       \* sys.argv of the CLI process
    cliPc,      \* position of the CLI process: "main", "converted", "exited"
    cliEnv,     \* what the environment answered to the CLI's import and exists,
                \* and the stage of convert_document's try block that raised
    cliResult,  \* the dict convert_document returned
    stdout,     \* JSON texts printed to standard output
    exitCode    \* exit status of the CLI process, -1 while it runs

vars == <<prog, converter, created, usedInst, needed, slots, tempDirs, files, dirs,
          resp, argv, cliPc, cliEnv, cliResult, stdout, exitCode>>
serverVars == <<converter, created, usedInst, needed, slots, tempDirs, resp>>
cliVars == <<argv, cliPc, cliEnv, cliResult, stdout, exitCode>>

Init ==
    /\ prog \in {"server", "cli"}
    /\ converter = 0
    /\ created = 0
    /\ usedInst = {}
    /\ needed = FALSE
    /\ slots = [s \in Slots |-> IdleSlot]
    /\ tempDirs = {}
    /\ files = <<>>
    /\ dirs = {}
    /\ resp = NoResp
    /\ argv \in (IF prog = "cli" THEN Argvs ELSE {<<>>})
    /\ cliPc = (IF prog = "cli" THEN "main" ELSE "off")
    /\ cliEnv = [import_ok |-> TRUE, exists |-> TRUE, raised |-> "none"]
    /\ cliResult = NoResult
    /\ stdout = <<>>
    /\ exitCode = -1

\* ------------------------------------------------------------ CLI actions
UsageResult ==
    [success |-> FALSE,
     error |-> <<"Usage: python convert_document.py <input_file> [output_file]">>]

\* __main__ with no argument: print the usage object, exit 1.
cli_usage ==
    /\ prog = "cli" /\ cliPc = "main"
    /\ Len(argv) < 2
    /\ stdout' = Append(stdout, json_dumps(UsageResult)[1])
    /\ exitCode' = 1
    /\ cliPc' = "exited"
    /\ UNCHANGED <<prog, serverVars, files, dirs, argv, cliEnv, cliResult>>

\* __main__: result = convert_document(input_file, output_file)
cli_convert ==
    /\ prog = "cli" /\ cliPc = "main"
    /\ Len(argv) >= 2
    /\ \E env \in CliEnvs :
        LET input_file == argv[2]
            output_file == IF Len(argv) > 2 THEN Some(argv[3]) ELSE None
            r == cli_convert_document(input_file, output_file, env, files, dirs)
        IN  /\ input_file = <<>> => ~env.exists
            /\ cliResult' = r.result
            /\ files' = r.files
            /\ dirs' = r.dirs
            /\ cliEnv' = [import_ok |-> env.import_ok, exists |-> env.exists,
                          raised |-> r.raised]
    /\ cliPc' = "converted"
    /\ UNCHANGED <<prog, serverVars, argv, stdout, exitCode>>

\* __main__: print(json.dumps(result)); sys.exit(0 if result["success"] else 1).
\* A TypeError from json.dumps is not caught: nothing is printed and the
\* interpreter exits with status 1.
cli_print_exit ==
    /\ prog = "cli" /\ cliPc = "converted"
    /\ LET text == json_dumps(cliResult)
       IN  IF text # None
           THEN /\ stdout' = Append(stdout, text[1])
                /\ exitCode' = (IF cliResult.success THEN 0 ELSE 1)
           ELSE /\ stdout' = stdout
                /\ exitCode' = 1
    /\ cliPc' = "exited"
    /\ UNCHANGED <<prog, serverVars, files, dirs, argv, cliEnv, cliResult>>

\* ---------------------------------------------------------- server actions
\* GET /
root ==
    /\ prog = "server" /\ resp = NoResp
    /\ resp' = [NoResp EXCEPT !.kind = "root", !.status = 200,
                  !.body = [status |-> "ok", service |-> "docling",
                            message |-> "Docling conversion server is running"]]
    /\ UNCHANGED <<prog, converter, created, usedInst, needed, slots, tempDirs,
                   files, dirs, cliVars>>

\* Mutant: the health check initialises the converter.
health_init_converter ==
    /\ prog = "server" /\ resp = NoResp
    /\ resp' = [NoResp EXCEPT !.kind = "health", !.status = 200,
                  !.body = [status |-> "healthy", docling |-> TRUE]]
    /\ converter' = get_converter(converter, created, TRUE).converter
    /\ created' = get_converter(converter, created, TRUE).created
    /\ UNCHANGED <<prog, usedInst, needed, slots, tempDirs, files, dirs, cliVars>>

\* GET /health
health ==
    /\ prog = "server" /\ resp = NoResp
    /\ resp' = [NoResp EXCEPT !.kind = "health", !.status = 200,
                  !.body = [status |-> "healthy", docling |-> TRUE]]
    /\ UNCHANGED <<prog, converter, created, usedInst, needed, slots, tempDirs,
                   files, dirs, cliVars>>

\* Mutant: the extension is not lower-cased.
FileExtNoLower(filename) == PathSuffix(filename)

\* `ext = Path(file.filename).suffix.lower()`
FileExt(filename) == Lower(PathSuffix(filename))

UnsupportedDetail(ext) ==
    <<"Unsupported file type: ">> \o ext \o <<". Supported: ">>
        \o JoinFrom(<<", ">>, supported_extensions, 1)

\* POST /convert, from the entry of the handler to `await file.read()`:
\* validation, mkdtemp, open(temp_path, "wb").  A request that fails here is
\* answered in this step; otherwise the handler is suspended in a slot.
convert_document_begin ==
    /\ prog = "server" /\ resp = NoResp
    /\ \E s \in Slots, fname \in FileNameInputs, outcome \in {"ok", "mkdtemp", "open_temp"} :
        LET ext == FileExt(fname[1])
            answered(r, stage, d) ==
                /\ resp' = [kind |-> "convert", status |-> r.status, body |-> r.body,
                            req |-> [NoReq EXCEPT !.filename = fname],
                            failedAt |-> stage, temp_dir |-> d]
                /\ slots' = slots
        IN  /\ slots[s].pc = "idle"
            /\ \A t \in Slots : t < s => slots[t].pc # "idle"
            /\ IF ~Truthy(fname)
               THEN /\ answered(HTTPException(400, <<"No filename provided">>), "validate", <<>>)
                    /\ tempDirs' = tempDirs
               ELSE IF ~Supported(ext)
               THEN /\ answered(HTTPException(400, UnsupportedDetail(ext)), "validate", <<>>)
                    /\ tempDirs' = tempDirs
               ELSE IF outcome = "mkdtemp"
               \* raised outside the try: the framework answers 500
               THEN /\ answered(HTTPException(500, <<"Internal Server Error">>), "mkdtemp", <<>>)
                    /\ tempDirs' = tempDirs
               ELSE \E d \in TempNames \ tempDirs :
                    IF outcome = "open_temp"
                    THEN /\ answered(respond([failedAt |-> "open_temp",
                                              body |-> [detail |-> ExcText("open_temp")]]),
                                     "open_temp", d)
                         /\ tempDirs' = RmTree(tempDirs \cup {d}, d)
                    ELSE /\ slots' = [slots EXCEPT ![s] =
                                        [pc |-> "reading", filename |-> fname[1], temp_dir |-> d]]
                         /\ tempDirs' = tempDirs \cup {d}
                         /\ resp' = NoResp
    /\ UNCHANGED <<prog, converter, created, usedInst, needed, files, dirs, cliVars>>

\* POST /convert, from the return of `await file.read()` to the end of the
\* handler, `finally` included.
convert_document_resume(s) ==
    /\ prog = "server" /\ resp = NoResp
    /\ slots[s].pc = "reading"
    /\ \E up \in {"ok", "read", "write_temp"}, output_path \in OutPathInputs,
          filename \in OutNameInputs :
       \E env \in (IF up = "ok" THEN ServerEnvs ELSE {[failAt |-> "none", doc |-> AnyDoc]}) :
        LET fname == slots[s].filename
            r == IF up # "ok"
                 THEN [failedAt |-> up, body |-> [detail |-> ExcText(up)],
                       converter |-> converter, created |-> created, used |-> {},
                       files |-> files, dirs |-> dirs]
                 ELSE run_conversion(PathStem(fname), PathStem(fname) \o <<".", "m", "d">>,
                                     [source_file |-> fname], output_path, filename,
                                     env, converter, created, files, dirs)
            answer == respond(r)
        IN  /\ r.created <= MaxInstances
            /\ converter' = r.converter
            /\ created' = r.created
            /\ usedInst' = usedInst \cup r.used
            /\ needed' = (needed \/ up = "ok")
            /\ files' = r.files
            /\ dirs' = r.dirs
            /\ resp' = [kind |-> "convert", status |-> answer.status, body |-> answer.body,
                        req |-> [filename |-> Some(fname), output_path |-> output_path],
                        failedAt |-> r.failedAt, temp_dir |-> slots[s].temp_dir]
    /\ tempDirs' = RmTree(tempDirs, slots[s].temp_dir)
    /\ slots' = [slots EXCEPT ![s] = IdleSlot]
    /\ UNCHANGED <<prog, cliVars>>

\* POST /convert-url: the handler has no await and runs in one step.
convert_from_url ==
    /\ prog = "server" /\ resp = NoResp
    /\ \E env \in ServerEnvs, output_path \in OutPathInputs, filename \in OutNameInputs :
        LET r == run_conversion(<<"Document">>, <<"converted.md">>, [source_url |-> Url],
                                output_path, filename, env, converter, created, files, dirs)
            answer == respond(r)
        IN  /\ r.created <= MaxInstances
            /\ converter' = r.converter
            /\ created' = r.created
            /\ usedInst' = usedInst \cup r.used
            /\ needed' = TRUE
            /\ files' = r.files
            /\ dirs' = r.dirs
            /\ resp' = [kind |-> "convert-url", status |-> answer.status,
                        body |-> answer.body,
                        req |-> [filename |-> None, output_path |-> output_path],
                        failedAt |-> r.failedAt, temp_dir |-> <<>>]
    /\ UNCHANGED <<prog, slots, tempDirs, cliVars>>

\* The framework writes the response of the step just taken to the client;
\* the event loop then runs the next handler step.
send_response ==
    /\ prog = "server" /\ resp # NoResp
    /\ resp' = NoResp
    /\ UNCHANGED <<prog, converter, created, usedInst, needed, slots, tempDirs,
                   files, dirs, cliVars>>

Next ==
    \/ cli_usage
    \/ cli_convert
    \/ cli_print_exit
    \/ root
    \/ health
    \/ convert_document_begin
    \/ \E s \in Slots : convert_document_resume(s)
    \/ convert_from_url
    \/ send_response

Spec == Init /\ [][Next]_vars

\* ================================================================ claims
Reading == {s \in Slots : slots[s].pc = "reading"}
ConvertKinds == {"convert", "convert-url"}
CliReturned == prog = "cli" /\ cliPc \in {"converted", "exited"}
ServerResult == resp.kind \in ConvertKinds /\ resp.status = 200

C2_SingleConverter ==
    /\ created <= 1
    /\ converter = created
    /\ created > 0 => needed
    /\ usedInst \subseteq {converter} \ {0}

\* Two conversions have written their output and a /convert request has just
\* succeeded, all on the one instance.
C2_Witness ==
    /\ created = 1 /\ usedInst = {1}
    /\ Cardinality(DOMAIN files) >= 2
    /\ resp.kind = "convert" /\ resp.status = 200

ClaimedExtensions ==
    { <<".", "p", "d", "f">>, <<".", "d", "o", "c", "x">>, <<".", "d", "o", "c">>,
      <<".", "p", "p", "t", "x">>, <<".", "p", "p", "t">>,
      <<".", "x", "l", "s", "x">>, <<".", "x", "l", "s">>,
      <<".", "h", "t", "m", "l">>, <<".", "h", "t", "m">> }

\* C3: POST /convert answers 400 exactly when the file name is absent or empty
\* or its lower-cased extension is not in the list of nine; the list the code
\* tests against is that list.
C3_BadExtensionIs400 ==
    /\ {supported_extensions[i] : i \in 1..Len(supported_extensions)} = ClaimedExtensions
    /\ resp.kind = "convert" =>
        (resp.status = 400 <=>
            \/ ~Truthy(resp.req.filename)
            \/ Lower(PathSuffix(resp.req.filename[1])) \notin ClaimedExtensions)

\* A file with an upper-case supported extension was accepted and converted.
C3_Witness ==
    /\ resp.kind = "convert" /\ resp.status = 200
    /\ PathSuffix(resp.req.filename[1]) = <<".", "H", "T", "M">>

TryStages ==
    {"open_temp", "read", "write_temp", "ctor", "convert", "export", "makedirs",
     "open_out", "write_out", "render"}

RaisedText(stage) == IF stage = "render" THEN RenderError ELSE ExcText(stage)

\* C4: a /convert or /convert-url request in which a stage inside the try
\* block raised is answered 500 with a detail containing the exception's
\* text and no result body; a 200 answer means no stage raised.
C4_FailureIs500 ==
    resp.kind \in ConvertKinds =>
        /\ resp.failedAt \in TryStages =>
            /\ resp.status = 500
            /\ Contains(resp.body.detail, RaisedText(resp.failedAt))
            /\ "success" \notin DOMAIN resp.body
        /\ resp.status = 200 => resp.failedAt = "none"

\* Saving the output of a /convert-url request failed.
C4_Witness ==
    /\ resp.kind = "convert-url" /\ resp.failedAt = "write_out" /\ resp.status = 500

DoclingMissing == <<"Docling not installed. Run: pip install docling">>

\* C5 as stated: for a missing input file the result has success=false and an
\* error containing the path, whether or not the library can be imported.
C5_Original ==
    (CliReturned /\ Len(argv) >= 2 /\ ~cliEnv.exists) =>
        /\ ~cliResult.success
        /\ Contains(cliResult.error, argv[2])

\* C5 amended: for a missing input file the result has success=false; its
\* error contains the path when the library can be imported, and is the
\* "Docling not installed" message when it cannot (the import is tried first).
C5_MissingInput ==
    (CliReturned /\ Len(argv) >= 2 /\ ~cliEnv.exists) =>
        /\ ~cliResult.success
        /\ cliEnv.import_ok => Contains(cliResult.error, argv[2])
        /\ ~cliEnv.import_ok => cliResult.error = DoclingMissing

\* The library imports and the (non-empty) input path does not exist.
C5_Witness ==
    /\ CliReturned /\ Len(argv) >= 2 /\ argv[2] # <<>>
    /\ ~cliEnv.exists /\ cliEnv.import_ok

\* C6: when the CLI has exited it has printed exactly one JSON object, and the
\* exit code is 0 if that object's success is true and 1 otherwise.
C6_OneObjectAndExitCode ==
    (prog = "cli" /\ cliPc = "exited") =>
        /\ Len(stdout) = 1
        /\ exitCode = (IF stdout[1].success THEN 0 ELSE 1)

ExactlyOne(r) ==
    /\ "success" \in DOMAIN r
    /\ ("markdown" \in DOMAIN r) <=> r.success
    /\ ("error" \in DOMAIN r) <=> ~r.success

\* C7: the dict convert_document returns, every object the CLI prints and
\* every 200 body of /convert and /convert-url holds markdown exactly when
\* success is true and error exactly when it is false.
C7_MarkdownXorError ==
    /\ CliReturned => ExactlyOne(cliResult)
    /\ \A i \in 1..Len(stdout) : ExactlyOne(stdout[i])
    /\ ServerResult => ExactlyOne(resp.body)

\* The CLI returned a failure from its except clause.
C7_Witness == CliReturned /\ cliEnv.raised = "convert" /\ "error" \in DOMAIN cliResult

\* Number of maximal runs of non-whitespace characters.
NumWords(md) ==
    Cardinality({i \in 1..Len(md) : ~IsSpace(md[i]) /\ (i = 1 \/ IsSpace(md[i - 1]))})

CountsMatch(r) ==
    /\ r.character_count = Len(r.markdown)
    /\ r.word_count = NumWords(r.markdown)

\* C8 as stated: a success result has non-empty markdown and matching counts.
C8_Original ==
    /\ (CliReturned /\ cliResult.success) =>
        cliResult.markdown # <<>> /\ CountsMatch(cliResult)
    /\ ServerResult => resp.body.markdown # <<>> /\ CountsMatch(resp.body)

\* C8 amended: in a success result of either adapter character_count is the
\* length of the markdown and word_count its number of whitespace-separated
\* words; the markdown may be empty.
C8_CountsMatch ==
    /\ (CliReturned /\ cliResult.success) => CountsMatch(cliResult)
    /\ ServerResult => CountsMatch(resp.body)

\* The CLI converted a document whose Markdown has two words.
C8_Witness == CliReturned /\ cliResult.success /\ cliResult.word_count = 2

Saved(r, wanted, dir) ==
    /\ r.saved_path # None <=> wanted
    /\ wanted =>
        /\ r.saved_path[1] \in DOMAIN files
        /\ files[r.saved_path[1]] = r.markdown
        /\ dir \in dirs

SaveStages == {"makedirs", "open_out", "write_out"}

C9_State ==
    /\ (CliReturned /\ cliResult.success) =>
        /\ Saved(cliResult, Len(argv) > 2 /\ argv[3] # <<>>,
                 IF Len(argv) > 2 /\ Dirname(argv[3]) # <<>> THEN Dirname(argv[3])
                 ELSE <<".">>)
        /\ cliResult.saved_path # None => cliResult.saved_path[1] = argv[3]
        /\ cliResult.saved_path = None => files = <<>>
    /\ (CliReturned /\ cliEnv.raised \in SaveStages) => ~cliResult.success
    /\ ServerResult =>
        Saved(resp.body, Truthy(resp.req.output_path),
              IF Truthy(resp.req.output_path) THEN resp.req.output_path[1] ELSE <<>>)
    /\ (resp.kind \in ConvertKinds /\ resp.failedAt \in SaveStages) => resp.status # 200

\* C9: a success result has a saved_path exactly when a non-empty output path
\* was given; then the directory exists and the file at saved_path holds the
\* result's markdown when the result is emitted.  A step that emits a success
\* result without an output path writes no file, and a failed save emits no
\* success result.
C9_SavedOutput ==
    [][ /\ C9_State'
        /\ (ServerResult' /\ ~Truthy(resp'.req.output_path)) =>
               (files' = files /\ dirs' = dirs) ]_vars

\* A /convert request with an output directory and a custom file name was
\* answered with the path it saved non-empty Markdown to.
C9_Witness ==
    /\ ServerResult /\ resp.kind = "convert"
    /\ resp.body.saved_path = Some(PathJoin(OutDir, <<"n", ".", "m", "d">>))
    /\ resp.body.markdown # <<>>

ServerState == <<converter, created, usedInst, needed, slots, tempDirs, files, dirs>>

\* C10: a step that answers GET / or GET /health changes nothing but the
\* response, and the answer to GET /health is 200 with
\* {status: "healthy", docling: true}; it is available whatever the converter
\* state.
C10_HealthStatic ==
    [][ /\ resp'.kind \in {"root", "health"} => ServerState' = ServerState
        /\ resp'.kind = "health" =>
               /\ resp'.status = 200
               /\ resp'.body = [status |-> "healthy", docling |-> TRUE]
        /\ (prog = "server" /\ resp = NoResp) => ENABLED health ]_vars

\* /health answered while a /convert request is in flight and the converter
\* has failed to construct (it is still None although it was asked for).
C10_Witness ==
    /\ resp.kind = "health" /\ resp.status = 200
    /\ converter = 0 /\ needed /\ Reading # {}

====
